---- MODULE Spec2Model ----
(***************************************************************************)
(* A model of smn ("summoner"), a macro command runner built on click and  *)
(* invoke.  Three parts of the program are modelled, each with its own     *)
(* specification over its own variables:                                   *)
(*                                                                         *)
(*   SpecGroup   smn/utils.py     DefaultGroup: registration, parse_args,  *)
(*                                get_command, resolve_command and the     *)
(*                                click main() pipeline that calls them    *)
(*   SpecExec    smn/__init__.py  Context.run_entrypoint and the root      *)
(*                                command tome that configures the context *)
(*   SpecImport  smn/core.py      prepare_import, locate_app and load_cli  *)
(***************************************************************************)
EXTENDS Integers, Sequences, FiniteSets, TLC

(***************************************************************************)
(* The state: the DefaultGroup and its click context, the execution        *)
(* context, and the filesystem and import state of the process.            *)
(***************************************************************************)
VARIABLES
    commands,            \* click.Group.commands: registered key -> command
    default_cmd_name,    \* DefaultGroup.default_cmd_name: a name or None
    default_if_no_args,  \* DefaultGroup.default_if_no_args
    arg0,                \* the attribute ctx.arg0 of the current click context
    resilient_parsing,   \* ctx.resilient_parsing of the current click context
    call                 \* the last call made on the group: inputs and outcome

groupVars == <<commands, default_cmd_name, default_if_no_args, arg0,
               resilient_parsing, call>>

VARIABLES
    phase,              \* "configuring" until the root command has run
    disable_execution,  \* the --disable-execution flag the root command got
    smn_dry_run,        \* Context.smn_dry_run
    smn_debug,          \* Context.smn_debug
    run_config,         \* ctx.config.run: echo, pty and dry
    spawned,            \* 1 once this invocation has started a child process
    ecall               \* the last run or run_entrypoint: inputs and outcome

execVars == <<phase, disable_execution, smn_dry_run, smn_debug, run_config,
              spawned, ecall>>

VARIABLES
    markers,      \* the directories that hold a file __init__.py
    scripts,      \* the directories that hold a file cli.py
    factories,    \* those whose cli.py defines create_cli, returning a group
    sys_path,     \* sys.path
    sys_modules,  \* sys.modules: dotted module name -> directory of its file
    icall         \* the last prepare_import or load_cli: inputs and outcome

importVars == <<markers, scripts, factories, sys_path, sys_modules, icall>>

vars == <<groupVars, execVars, importVars>>

(***************************************************************************)
(* Bounds of the model.                                                    *)
(***************************************************************************)
\* longest argument list handed to the group
MaxArgs == 2

\* names commands are created with, and the tokens of a command line
CmdNames == {"build", "smn-run"}
Tokens == CmdNames \cup {"xyz"}

\* Python's None, the absence of the attribute ctx.arg0, and "no exception"
None == "None"
NoArg0 == "<no arg0>"
NoErr == "ok"

ArgLists == UNION {[1..n -> Tokens] : n \in 0..MaxArgs}

(***************************************************************************)
(* smn/utils.py: DefaultGroup                                              *)
(*                                                                         *)
(* A command is identified by its own name (click.Command.name).  The      *)
(* registry `commands` maps the key a command is registered under to the   *)
(* command; click's add_command(cmd, name) lets the two differ.            *)
(***************************************************************************)

\* the outcome of a call that did not get as far as producing the field
Blank ==
    [op |-> "none", name |-> None, args |-> <<>>, err |-> NoErr,
     stage |-> "none", passed |-> <<>>, cmd_name |-> None, cmd |-> None,
     out |-> <<>>, prev_default |-> None, handler |-> None]

\* click.Group.get_command: self.commands.get(cmd_name)
Group_get_command(cmds, cmd_name) ==
    IF cmd_name \in DOMAIN cmds THEN cmds[cmd_name] ELSE None

\* none_throws(self.default_cmd_name) raises AssertionError on None
none_throws_fails(dflt) == dflt = None

\* DefaultGroup.get_command
get_command(cmds, dflt, a0, cmd_name) ==
    IF cmd_name \notin DOMAIN cmds
    THEN IF none_throws_fails(dflt)
         THEN [err |-> "AssertionError", arg0 |-> cmd_name, cmd |-> None]
         ELSE [err |-> NoErr, arg0 |-> cmd_name,
               cmd |-> Group_get_command(cmds, dflt)]
    ELSE [err |-> NoErr, arg0 |-> a0, cmd |-> Group_get_command(cmds, cmd_name)]

\* click.Group.resolve_command (no token_normalize_func is configured):
\* cmd_name = args[0]; cmd = self.get_command(ctx, cmd_name); ctx.fail when no
\* command was found and the context does not parse resiliently; returns
\* (cmd_name if cmd else None, cmd, args[1:])
Group_resolve_command(cmds, dflt, a0, resilient, args) ==
    IF args = <<>>
    THEN [err |-> "IndexError", arg0 |-> a0, cmd_name |-> None, cmd |-> None,
          args |-> <<>>]
    ELSE LET g == get_command(cmds, dflt, a0, Head(args)) IN
         IF g.err # NoErr
         THEN [err |-> g.err, arg0 |-> g.arg0, cmd_name |-> None,
               cmd |-> None, args |-> <<>>]
         ELSE IF g.cmd = None /\ ~resilient
         THEN [err |-> "UsageError", arg0 |-> g.arg0, cmd_name |-> None,
               cmd |-> None, args |-> <<>>]
         ELSE [err |-> NoErr, arg0 |-> g.arg0,
               cmd_name |-> IF g.cmd # None THEN Head(args) ELSE None,
               cmd |-> g.cmd, args |-> Tail(args)]

\* resolve_command without the re-insertion of the unmatched token
resolve_command_drops_arg0(cmds, dflt, a0, resilient, args) ==
    LET r == Group_resolve_command(cmds, dflt, a0, resilient, args) IN
    IF r.err = NoErr /\ r.cmd # None /\ r.arg0 # NoArg0
    THEN [r EXCEPT !.cmd_name = r.cmd]
    ELSE r

\* DefaultGroup.resolve_command
resolve_command(cmds, dflt, a0, resilient, args) ==
    LET r == Group_resolve_command(cmds, dflt, a0, resilient, args) IN
    IF r.err = NoErr /\ r.cmd # None /\ r.arg0 # NoArg0
    THEN [r EXCEPT !.args = <<r.arg0>> \o r.args, !.cmd_name = r.cmd]
    ELSE r

\* click.Group.parse_args for a group without invoke_without_command and
\* without chain, on arguments that hold no options: no arguments at all
\* print the help and exit; otherwise the first argument becomes
\* ctx.protected_args and the rest ctx.args
Group_parse_args(args) ==
    IF args = <<>>
    THEN [err |-> "NoArgsIsHelpError", passed |-> args,
          protected_args |-> <<>>, args |-> <<>>]
    ELSE [err |-> NoErr, passed |-> args,
          protected_args |-> <<Head(args)>>, args |-> Tail(args)]

\* parse_args that prepends the default whenever default_if_no_args is set
parse_args_prepends_always(if_no_args, dflt, args) ==
    IF if_no_args
    THEN IF none_throws_fails(dflt)
         THEN [err |-> "AssertionError", passed |-> <<>>,
               protected_args |-> <<>>, args |-> <<>>]
         ELSE Group_parse_args(<<dflt>> \o args)
    ELSE Group_parse_args(args)

\* parse_args that checks for the default before looking at the arguments
parse_args_checks_first(if_no_args, dflt, args) ==
    IF if_no_args /\ none_throws_fails(dflt)
    THEN [err |-> "AssertionError", passed |-> <<>>,
          protected_args |-> <<>>, args |-> <<>>]
    ELSE IF args = <<>> /\ if_no_args
    THEN Group_parse_args(<<dflt>> \o args)
    ELSE Group_parse_args(args)

\* DefaultGroup.parse_args
parse_args(if_no_args, dflt, args) ==
    IF args = <<>> /\ if_no_args
    THEN IF none_throws_fails(dflt)
         THEN [err |-> "AssertionError", passed |-> <<>>,
               protected_args |-> <<>>, args |-> <<>>]
         ELSE Group_parse_args(<<dflt>> \o args)
    ELSE Group_parse_args(args)

\* click.Group.add_command(cmd, name): self.commands[name or cmd.name] = cmd
add_command(cmds, cmd, key) ==
    [k \in DOMAIN cmds \cup {key} |-> IF k = key THEN cmd ELSE cmds[k]]

\* DefaultGroup.set_default_command: the new registry and default name, and
\* the error raised, if any
set_default_command(cmds, dflt, cmd) ==
    [err |-> NoErr, commands |-> add_command(cmds, cmd, cmd),
     default_cmd_name |-> cmd]

GroupStart ==
    /\ commands = <<>>
    /\ default_cmd_name \in CmdNames \cup {None}
    /\ default_if_no_args \in BOOLEAN
    /\ arg0 = NoArg0
    /\ resilient_parsing = FALSE
    /\ call = Blank

\* group.add_command(cmd) and group.add_command(cmd, name=key)
AddCommand ==
    /\ \E cmd \in CmdNames, key \in CmdNames :
           /\ commands' = add_command(commands, cmd, key)
           /\ call' = [Blank EXCEPT !.op = "add_command", !.name = key,
                                    !.cmd = cmd, !.prev_default = default_cmd_name]
           /\ UNCHANGED <<default_cmd_name, default_if_no_args, arg0,
                          resilient_parsing>>
    /\ UNCHANGED <<execVars, importVars>>

\* group.set_default_command(cmd)
SetDefaultCommand ==
    /\ \E cmd \in CmdNames :
           LET r == set_default_command(commands, default_cmd_name, cmd) IN
           /\ commands' = r.commands
           /\ default_cmd_name' = r.default_cmd_name
           /\ call' = [Blank EXCEPT !.op = "set_default_command", !.name = cmd,
                                    !.cmd = cmd, !.err = r.err,
                                    !.prev_default = default_cmd_name]
           /\ UNCHANGED <<default_if_no_args, arg0, resilient_parsing>>
    /\ UNCHANGED <<execVars, importVars>>

\* @group.command(name, default=...) applied to a function: click's decorator
\* creates the command and add_command()s it; with default=True the
\* DefaultGroup's _decorator then calls set_default_command on it
CommandDecorator ==
    /\ \E cmd \in CmdNames, dflt \in BOOLEAN :
           LET added == add_command(commands, cmd, cmd)
               r == IF dflt
                    THEN set_default_command(added, default_cmd_name, cmd)
                    ELSE [err |-> NoErr, commands |-> added,
                          default_cmd_name |-> default_cmd_name] IN
           /\ commands' = r.commands
           /\ default_cmd_name' = r.default_cmd_name
           /\ call' = [Blank EXCEPT
                           !.op = IF dflt THEN "command_default" ELSE "command",
                           !.name = cmd, !.cmd = cmd, !.err = r.err,
                           !.prev_default = default_cmd_name]
           /\ UNCHANGED <<default_if_no_args, arg0, resilient_parsing>>
    /\ UNCHANGED <<execVars, importVars>>

\* a new click context for the group (Command.make_context builds one per
\* invocation; shell completion builds its own with resilient_parsing)
NewContext ==
    /\ \E res \in BOOLEAN :
           /\ arg0' = NoArg0
           /\ resilient_parsing' = res
           /\ call' = [Blank EXCEPT !.op = "new_context"]
           /\ UNCHANGED <<commands, default_cmd_name, default_if_no_args>>
    /\ UNCHANGED <<execVars, importVars>>

\* group.parse_args(ctx, args) on the current context
ParseArgs ==
    /\ \E args \in ArgLists :
           LET r == parse_args(default_if_no_args, default_cmd_name, args) IN
           /\ call' = [Blank EXCEPT !.op = "parse_args", !.args = args,
                                    !.err = r.err, !.stage = "parse",
                                    !.passed = r.passed,
                                    !.out = r.protected_args \o r.args]
           /\ UNCHANGED <<commands, default_cmd_name, default_if_no_args, arg0,
                          resilient_parsing>>
    /\ UNCHANGED <<execVars, importVars>>

\* group.get_command(ctx, cmd_name) on the current context
GetCommand ==
    /\ \E t \in Tokens :
           LET r == get_command(commands, default_cmd_name, arg0, t) IN
           /\ arg0' = r.arg0
           /\ call' = [Blank EXCEPT !.op = "get_command", !.name = t,
                                    !.err = r.err, !.stage = "resolve",
                                    !.cmd = r.cmd]
           /\ UNCHANGED <<commands, default_cmd_name, default_if_no_args,
                          resilient_parsing>>
    /\ UNCHANGED <<execVars, importVars>>

\* group.resolve_command(ctx, args) on the current context
ResolveCommand ==
    /\ \E args \in ArgLists :
           LET r == resolve_command(commands, default_cmd_name, arg0,
                                    resilient_parsing, args) IN
           /\ arg0' = r.arg0
           /\ call' = [Blank EXCEPT !.op = "resolve_command", !.args = args,
                                    !.err = r.err, !.stage = "resolve",
                                    !.cmd_name = r.cmd_name, !.cmd = r.cmd,
                                    !.out = r.args]
           /\ UNCHANGED <<commands, default_cmd_name, default_if_no_args,
                          resilient_parsing>>
    /\ UNCHANGED <<execVars, importVars>>

\* group.main(args): click makes a fresh context, whose construction calls
\* parse_args; Group.invoke then fails with "Missing command." when nothing
\* is protected, and otherwise resolves [*protected_args, *args], runs the
\* group's callback and invokes the resolved command with the remaining
\* arguments
Main ==
    /\ \E args \in ArgLists :
           LET p == parse_args(default_if_no_args, default_cmd_name, args)
               r == resolve_command(commands, default_cmd_name, NoArg0, FALSE,
                                    p.protected_args \o p.args) IN
           /\ resilient_parsing' = FALSE
           /\ IF p.err # NoErr
              THEN /\ arg0' = NoArg0
                   /\ call' = [Blank EXCEPT !.op = "main", !.args = args,
                                            !.err = p.err, !.stage = "parse",
                                            !.passed = p.passed]
              ELSE IF p.protected_args = <<>>
              THEN /\ arg0' = NoArg0
                   /\ call' = [Blank EXCEPT !.op = "main", !.args = args,
                                            !.err = "UsageError",
                                            !.stage = "invoke",
                                            !.passed = p.passed]
              ELSE /\ arg0' = r.arg0
                   /\ call' = [Blank EXCEPT
                                   !.op = "main", !.args = args, !.err = r.err,
                                   !.stage = IF r.err = NoErr THEN "dispatch"
                                             ELSE "resolve",
                                   !.passed = p.passed, !.cmd_name = r.cmd_name,
                                   !.cmd = r.cmd, !.out = r.args,
                                   !.handler = r.cmd]
           /\ UNCHANGED <<commands, default_cmd_name, default_if_no_args>>
    /\ UNCHANGED <<execVars, importVars>>

(***************************************************************************)
(* Properties of the DefaultGroup                                          *)
(***************************************************************************)
DefaultRegistered == default_cmd_name \in DOMAIN commands

\* C1: for a group with a registered default command D, resolve_command on
\* non-empty args whose leading token is not a registered name returns D's
\* name, D, and the whole of args in the original order.
C1_UnmatchedTokenGoesToDefault ==
    (/\ call.op = "resolve_command"
     /\ call.args # <<>>
     /\ Head(call.args) \notin DOMAIN commands
     /\ DefaultRegistered)
    => /\ call.err = NoErr
       /\ call.cmd = commands[default_cmd_name]
       /\ call.cmd_name = commands[default_cmd_name]
       /\ call.out = call.args

C1_Witness ==
    /\ call.op = "resolve_command"
    /\ Len(call.args) >= 2
    /\ Head(call.args) \notin DOMAIN commands
    /\ DefaultRegistered
    /\ call.cmd = commands[default_cmd_name]
    /\ call.out = call.args

\* C2: every resolve_command whose leading token is a registered name,
\* whatever was called on the context before, yields the command registered
\* under that token and args without its first element.
C2_RegisteredTokenWins ==
    (/\ call.op = "resolve_command"
     /\ call.args # <<>>
     /\ Head(call.args) \in DOMAIN commands)
    => /\ call.err = NoErr
       /\ call.cmd = commands[Head(call.args)]
       /\ call.out = Tail(call.args)

\* C3: parse_args hands click [default_cmd_name] when args is empty and
\* default_if_no_args is set (raising instead when there is no default name
\* to prepend) and hands args on unchanged in every other case; an empty
\* invocation of a group with default_if_no_args and a registered default D
\* runs D with no arguments.
C3_ParseArgsPrependsDefault ==
    /\ call.op \in {"parse_args", "main"}
       => IF call.args = <<>> /\ default_if_no_args
          THEN IF default_cmd_name = None
               THEN call.err = "AssertionError" /\ call.stage = "parse"
               ELSE call.passed = <<default_cmd_name>>
          ELSE call.passed = call.args
    /\ (/\ call.op = "main"
        /\ call.args = <<>>
        /\ default_if_no_args
        /\ DefaultRegistered)
       => /\ call.err = NoErr
          /\ call.stage = "dispatch"
          /\ call.handler = commands[default_cmd_name]
          /\ call.out = <<>>

C3_Witness ==
    /\ call.op = "main"
    /\ call.args = <<>>
    /\ default_if_no_args
    /\ DefaultRegistered
    /\ call.passed = <<default_cmd_name>>
    /\ call.handler = commands[default_cmd_name]

\* C4: flagging a second command as the default of a group that already has
\* a default command raises an error and leaves the first default in place.
C4_SecondDefaultRejected ==
    (/\ call.op \in {"set_default_command", "command_default"}
     /\ call.prev_default # None
     /\ call.prev_default # call.name
     /\ call.prev_default \in DOMAIN commands)
    => /\ call.err # NoErr
       /\ default_cmd_name = call.prev_default

MaxCommand == 2
\* largest exit status a child process is given
MaxExit == 2

SP == " "
Words == {<<"l", "s">>, <<"-", "c">>, <<"1">>}
EntryNames == {<<"p", "i", "n", "g">>, <<"l", "s">>}
CommandTuples == UNION {[1..n -> Words] : n \in 0..MaxCommand}


NoCall ==
    [op |-> "none", name |-> <<>>, command |-> <<>>, cmdline |-> <<>>,
     runs |-> 0, process |-> FALSE, child |-> 0, exited |-> 0,
     raised |-> "none", exit_code |-> 0]

\* str.join: the elements of seq with sep between each two of them
RECURSIVE join(_, _)
join(sep, seq) ==
    IF seq = <<>> THEN <<>>
    ELSE IF Len(seq) = 1 THEN seq[1]
    ELSE seq[1] \o sep \o join(sep, Tail(seq))

\* invoke's Context.run under ctx.config.run, for a child that would exit
\* with status child: a dry run starts no process and returns a Result with
\* exited = 0; otherwise the process runs, and a nonzero exit raises
\* UnexpectedExit carrying the Result
run(cfg, cmdline, child) ==
    IF cfg.dry
    THEN [cmdline |-> cmdline, process |-> FALSE, exited |-> 0,
          raised |-> "none"]
    ELSE [cmdline |-> cmdline, process |-> TRUE, exited |-> child,
          raised |-> IF child # 0 THEN "UnexpectedExit" ELSE "none"]

\* run_entrypoint that puts nothing between the name and its arguments
run_entrypoint_no_space(cfg, name, command, child) ==
    LET r == run(cfg, name \o join(<<SP>>, command), child) IN
    [cmdline |-> r.cmdline, runs |-> 1, process |-> r.process,
     exited |-> r.exited,
     raised |-> IF r.raised = "UnexpectedExit" THEN "Exit" ELSE r.raised,
     exit_code |-> IF r.raised = "UnexpectedExit" THEN r.exited ELSE 0]

\* Context.run_entrypoint
run_entrypoint(cfg, name, command, child) ==
    LET r == run(cfg, name \o <<SP>> \o join(<<SP>>, command), child) IN
    [cmdline |-> r.cmdline, runs |-> 1, process |-> r.process,
     exited |-> r.exited,
     raised |-> IF r.raised = "UnexpectedExit" THEN "Exit" ELSE r.raised,
     exit_code |-> IF r.raised = "UnexpectedExit" THEN r.exited ELSE 0]

\* the root command taking run.dry from --dry-run
tome_dry_from_dry_run(dry_run, disable, debug, isatty) ==
    [smn_dry_run |-> dry_run, smn_debug |-> debug,
     run |-> [echo |-> debug, pty |-> isatty, dry |-> dry_run]]

\* the root command tome: the context's attributes and its new config
tome(dry_run, disable, debug, isatty) ==
    [smn_dry_run |-> dry_run, smn_debug |-> debug,
     run |-> [echo |-> debug, pty |-> isatty, dry |-> disable]]

\* Context.__init__, under invoke's default configuration
ExecStart ==
    /\ phase = "configuring"
    /\ disable_execution = FALSE
    /\ smn_dry_run = FALSE
    /\ smn_debug = FALSE
    /\ run_config = [echo |-> FALSE, pty |-> FALSE, dry |-> FALSE]
    /\ spawned = 0
    /\ ecall = NoCall

\* the root command runs, once, before the command the group dispatches
Tome ==
    /\ phase = "configuring"
    /\ \E dry_run \in BOOLEAN, disable \in BOOLEAN, debug \in BOOLEAN,
          isatty \in BOOLEAN :
          LET t == tome(dry_run, disable, debug, isatty) IN
          /\ smn_dry_run' = t.smn_dry_run
          /\ smn_debug' = t.smn_debug
          /\ run_config' = t.run
          /\ disable_execution' = disable
    /\ phase' = "active"
    /\ ecall' = [NoCall EXCEPT !.op = "tome"]
    /\ UNCHANGED spawned
    /\ UNCHANGED <<groupVars, importVars>>

\* a dispatched command calls ctx.run(cmdline)
Run ==
    /\ phase = "active"
    /\ \E name \in EntryNames, child \in 0..MaxExit :
          LET r == run(run_config, name, child) IN
          /\ ecall' = [NoCall EXCEPT !.op = "run", !.name = name,
                                     !.cmdline = r.cmdline, !.runs = 1,
                                     !.process = r.process, !.child = child,
                                     !.exited = r.exited, !.raised = r.raised]
          /\ spawned' = IF r.process THEN 1 ELSE spawned
    /\ UNCHANGED <<phase, disable_execution, smn_dry_run, smn_debug,
                   run_config>>
    /\ UNCHANGED <<groupVars, importVars>>

\* a dispatched command calls ctx.run_entrypoint(name, command)
RunEntrypoint ==
    /\ phase = "active"
    /\ \E name \in EntryNames, command \in CommandTuples,
          child \in 0..MaxExit :
          LET r == run_entrypoint(run_config, name, command, child) IN
          /\ ecall' = [op |-> "run_entrypoint", name |-> name,
                       command |-> command, cmdline |-> r.cmdline,
                       runs |-> r.runs, process |-> r.process,
                       child |-> child, exited |-> r.exited,
                       raised |-> r.raised, exit_code |-> r.exit_code]
          /\ spawned' = IF r.process THEN 1 ELSE spawned
    /\ UNCHANGED <<phase, disable_execution, smn_dry_run, smn_debug,
                   run_config>>
    /\ UNCHANGED <<groupVars, importVars>>

\* the process ends and smn is invoked again: a new Context
NewInvocation ==
    /\ phase = "active"
    /\ phase' = "configuring"
    /\ disable_execution' = FALSE
    /\ smn_dry_run' = FALSE
    /\ smn_debug' = FALSE
    /\ run_config' = [echo |-> FALSE, pty |-> FALSE, dry |-> FALSE]
    /\ spawned' = 0
    /\ ecall' = NoCall
    /\ UNCHANGED <<groupVars, importVars>>

(***************************************************************************)
(* Properties of the execution context                                     *)
(***************************************************************************)
\* the pieces of line between occurrences of sep, as str.split(sep) gives them
RECURSIVE Split(_, _, _)
Split(line, sep, piece) ==
    IF line = <<>> THEN <<piece>>
    ELSE IF Head(line) = sep THEN <<piece>> \o Split(Tail(line), sep, <<>>)
    ELSE Split(Tail(line), sep, Append(piece, Head(line)))

\* C6: run_entrypoint(name, command) calls run once with name, a space, and
\* the elements of command separated by single spaces; a child that exits
\* with a nonzero status c ends the wrapper with click's Exit carrying c, and
\* a child that exits with zero lets run_entrypoint return.
C6_EntrypointMirrorsChildExit ==
    ecall.op = "run_entrypoint"
    => /\ ecall.runs = 1
       /\ Split(ecall.cmdline, SP, <<>>) =
              <<ecall.name>> \o (IF ecall.command = <<>> THEN << <<>> >>
                                 ELSE ecall.command)
       /\ (ecall.process /\ ecall.child # 0)
          => ecall.raised = "Exit" /\ ecall.exit_code = ecall.child
       /\ (ecall.process /\ ecall.child = 0) => ecall.raised = "none"
       /\ ecall.raised \in {"Exit", "none"}

C6_Witness ==
    /\ ecall.op = "run_entrypoint"
    /\ Len(ecall.command) = 2
    /\ ecall.process
    /\ ecall.child = 2
    /\ ecall.raised = "Exit"
    /\ ecall.exit_code = 2

\* C7: once the root command has configured the context with
\* disable_execution set, every run starts no process and returns exit code
\* 0, and run_entrypoint never ends the wrapper with a nonzero status.
C7_DisabledExecutionNeverRuns ==
    (phase = "active" /\ disable_execution)
    => /\ spawned = 0
       /\ ecall.op \in {"run", "run_entrypoint"}
          => /\ ~ecall.process
             /\ ecall.exited = 0
             /\ ecall.raised = "none"
             /\ ecall.exit_code = 0

C7_Witness ==
    /\ phase = "active"
    /\ disable_execution
    /\ ecall.op = "run_entrypoint"
    /\ ecall.child # 0
    /\ ~ecall.process
    /\ ecall.exited = 0

(***************************************************************************)
(* smn/core.py: finding and importing the script                           *)
(*                                                                         *)
(* A name is a sequence of characters and a path the sequence of names     *)
(* from the filesystem root down; <<>> is the root directory.  Paths are   *)
(* real paths (os.path.realpath has been applied).                         *)
(***************************************************************************)
\* longest module search path
MaxSysPath == 4
\* most directories that hold a script cli.py
MaxScripts == 2

DirA == <<"a">>
DirB == <<"b">>
DirPkg == <<"p", "k", "g">>
\* the directories of the filesystem
Dirs == {<<>>, <<DirA>>, <<DirB>>, <<DirA, DirPkg>>, <<DirB, DirPkg>>}

DOT == "."
CliPy == <<"c", "l", "i", ".", "p", "y">>
InitPy == <<"_", "_", "i", "n", "i", "t", "_", "_", ".", "p", "y">>
TomeFile == <<"t", "o", "m", "e">>
\* file names a script is given by
FileNames == {CliPy, InitPy, TomeFile}

\* what sys.path holds when the interpreter starts: no directory of Dirs
SitePackages == <<<<"l", "i", "b">>>>


NoImport ==
    [op |-> "none", dir |-> <<>>, file |-> <<>>, module_name |-> <<>>,
     root |-> <<>>, examined |-> 0, hang |-> FALSE, err |-> NoErr,
     loaded |-> <<>>]

Front(seq) == SubSeq(seq, 1, Len(seq) - 1)
Last(seq) == seq[Len(seq)]
Reverse(seq) == [i \in 1..Len(seq) |-> seq[Len(seq) + 1 - i]]

\* the index of the last occurrence of ch in name, 0 when there is none
LastIndex(name, ch) ==
    LET at == {i \in 1..Len(name) : name[i] = ch} IN
    IF at = {} THEN 0 ELSE CHOOSE i \in at : \A j \in at : j <= i

\* os.path.splitext on the last component of a path: the extension starts at
\* the last dot, leading dots of the name aside
splitext(name) ==
    LET i == LastIndex(name, DOT) IN
    IF i = 0 \/ \A j \in 1..(i - 1) : name[j] = DOT
    THEN <<name, <<>>>>
    ELSE <<SubSeq(name, 1, i - 1), SubSeq(name, i, Len(name))>>

\* os.path.split: (head, tail); the root splits into itself and an empty name
split(path) ==
    IF path = <<>> THEN <<<<>>, <<>>>> ELSE <<Front(path), Last(path)>>

\* the loop of prepare_import: move up, collecting names, until the directory
\* reached holds no __init__.py.  At the root the loop cannot move further
\* up: with an __init__.py there it never ends.
RECURSIVE walk_up(_, _, _, _)
walk_up(marked, path, names, examined) ==
    LET parent == split(path)[1]
        collected == Append(names, split(path)[2]) IN
    IF parent \notin marked
    THEN [hang |-> FALSE, root |-> parent, names |-> collected,
          examined |-> examined + 1]
    ELSE IF parent = <<>> /\ path = <<>>
    THEN [hang |-> TRUE, root |-> parent, names |-> collected,
          examined |-> examined + 1]
    ELSE walk_up(marked, parent, collected, examined + 1)

\* prepare_import that keeps a leading __init__ as a module of its package
prepare_import_keeps_init(marked, syspath, dir, file) ==
    LET parts == splitext(file)
        base == IF parts[2] = <<".", "p", "y">> THEN parts[1] ELSE file
        w == walk_up(marked, Append(dir, base), <<>>, 0) IN
    [hang |-> w.hang, root |-> w.root, examined |-> w.examined,
     module_name |-> join(<<DOT>>, Reverse(w.names)),
     sys_path |-> IF w.hang THEN syspath
                  ELSE IF syspath[1] # w.root THEN <<w.root>> \o syspath
                  ELSE syspath]

\* prepare_import(path) for the real path dir/file: the dotted module name,
\* the directory put on sys.path, and the new sys.path
prepare_import(marked, syspath, dir, file) ==
    LET parts == splitext(file)
        base == IF parts[2] = <<".", "p", "y">> THEN parts[1] ELSE file
        start == IF base = <<"_", "_", "i", "n", "i", "t", "_", "_">>
                 THEN dir ELSE Append(dir, base)
        w == walk_up(marked, start, <<>>, 0) IN
    [hang |-> w.hang, root |-> w.root, examined |-> w.examined,
     module_name |-> join(<<DOT>>, Reverse(w.names)),
     sys_path |-> IF w.hang THEN syspath
                  ELSE IF syspath[1] # w.root THEN <<w.root>> \o syspath
                  ELSE syspath]

\* the names between the dots of a module name, as the import system reads it
RECURSIVE module_parts(_, _)
module_parts(dotted, piece) ==
    IF dotted = <<>> THEN <<piece>>
    ELSE IF Head(dotted) = DOT
    THEN <<piece>> \o module_parts(Tail(dotted), <<>>)
    ELSE module_parts(Tail(dotted), Append(piece, Head(dotted)))

\* the entries of a search path, in order, that are in the set good
RECURSIVE select(_, _)
select(pathlist, good) ==
    IF pathlist = <<>> THEN <<>>
    ELSE (IF Head(pathlist) \in good THEN <<Head(pathlist)>> ELSE <<>>)
         \o select(Tail(pathlist), good)

\* Python's path based finder for the module names[1]. ... .names[n], looked
\* up along pathlist: the last name is the module cli of a file cli.py; a name
\* before it is a package, the first directory of that name with an
\* __init__.py, or else the namespace package of all directories of that name.
\* Gives the directory of the file found, as a one-element sequence, or <<>>.
RECURSIVE find_module(_, _, _, _)
find_module(marked, holders, pathlist, names) ==
    LET entries == {pathlist[i] : i \in 1..Len(pathlist)} IN
    IF Len(names) = 1
    THEN LET hits == select(pathlist,
                            {d \in entries : /\ names[1] = <<"c", "l", "i">>
                                             /\ d \in holders}) IN
         IF hits = <<>> THEN <<>> ELSE <<hits[1]>>
    ELSE LET regular ==
                 select(pathlist,
                        {d \in entries : Append(d, names[1]) \in marked})
             portions ==
                 select(pathlist,
                        {d \in entries : Append(d, names[1]) \in Dirs}) IN
         IF regular # <<>>
         THEN find_module(marked, holders,
                          <<Append(regular[1], names[1])>>, Tail(names))
         ELSE IF portions # <<>>
         THEN find_module(marked, holders,
                          [i \in 1..Len(portions) |->
                              Append(portions[i], names[1])], Tail(names))
         ELSE <<>>

\* find_best_app(module) for the module of the file dir/cli.py: the group its
\* create_cli returns, and a ValueError when it defines no such function
find_best_app(with_factory, dir) ==
    IF dir \in with_factory THEN NoErr ELSE "ValueError"

\* locate_app(module_name): __import__ answers from sys.modules when the name
\* is there and otherwise searches sys.path; an ImportError is handled by
\* raising NoAppException, a name core.py does not define, so a NameError
\* comes out.  The module found goes to find_best_app.
locate_app(marked, holders, with_factory, syspath, modules, module_name) ==
    IF module_name \in DOMAIN modules
    THEN [err |-> find_best_app(with_factory, modules[module_name]),
          loaded |-> <<modules[module_name]>>, sys_modules |-> modules]
    ELSE LET found == find_module(marked, holders, syspath,
                                  module_parts(module_name, <<>>)) IN
         IF found = <<>>
         THEN [err |-> "NameError", loaded |-> <<>>, sys_modules |-> modules]
         ELSE [err |-> find_best_app(with_factory, found[1]),
               loaded |-> found,
               sys_modules |-> [n \in DOMAIN modules \cup {module_name} |->
                                   IF n = module_name THEN found[1]
                                   ELSE modules[n]]]

\* load_cli() in the working directory cwd: the path "cli.py" is resolved
\* against cwd, prepared and imported
load_cli(marked, holders, with_factory, syspath, modules, cwd) ==
    LET p == prepare_import(marked, syspath, cwd, CliPy)
        a == locate_app(marked, holders, with_factory, p.sys_path, modules,
                        p.module_name)
    IN  [hang |-> p.hang, module_name |-> p.module_name, root |-> p.root,
         examined |-> p.examined, sys_path |-> p.sys_path,
         err |-> IF p.hang THEN NoErr ELSE a.err,
         loaded |-> IF p.hang THEN <<>> ELSE a.loaded,
         sys_modules |-> IF p.hang THEN modules ELSE a.sys_modules]

\* a process starts: sys.path and sys.modules as the interpreter sets them
ImportStart ==
    /\ markers \in SUBSET Dirs
    /\ sys_path = SitePackages
    /\ sys_modules = <<>>
    /\ icall = NoImport

ImportIdle ==
    /\ markers = {}
    /\ scripts = {}
    /\ factories = {}
    /\ sys_path = SitePackages
    /\ sys_modules = <<>>
    /\ icall = NoImport

\* prepare_import on the path of a script; a script named __init__.py lies in
\* a directory that holds an __init__.py
PrepareImport ==
    /\ Len(sys_path) < MaxSysPath
    /\ \E dir \in Dirs, file \in FileNames :
          /\ file = InitPy => dir \in markers
          /\ LET r == prepare_import(markers, sys_path, dir, file) IN
             /\ sys_path' = r.sys_path
             /\ icall' = [NoImport EXCEPT
                              !.op = "prepare_import", !.dir = dir,
                              !.file = file, !.module_name = r.module_name,
                              !.root = r.root, !.examined = r.examined,
                              !.hang = r.hang]
    /\ UNCHANGED <<markers, scripts, factories, sys_modules>>
    /\ UNCHANGED <<groupVars, execVars>>

\* cli() calls load_cli() with some directory as the working directory
LoadCli ==
    /\ Len(sys_path) < MaxSysPath
    /\ \E cwd \in Dirs :
          LET r == load_cli(markers, scripts, factories, sys_path, sys_modules,
                            cwd) IN
          /\ sys_path' = r.sys_path
          /\ sys_modules' = r.sys_modules
          /\ icall' = [NoImport EXCEPT
                           !.op = "load_cli", !.dir = cwd, !.file = CliPy,
                           !.module_name = r.module_name, !.root = r.root,
                           !.examined = r.examined, !.hang = r.hang,
                           !.err = r.err, !.loaded = r.loaded]
    /\ UNCHANGED <<markers, scripts, factories>>
    /\ UNCHANGED <<groupVars, execVars>>

\* the process ends and another starts
NewProcess ==
    /\ icall.op # "none"
    /\ sys_path' = SitePackages
    /\ sys_modules' = <<>>
    /\ icall' = NoImport
    /\ UNCHANGED <<markers, scripts, factories>>
    /\ UNCHANGED <<groupVars, execVars>>

(***************************************************************************)
(* Properties of finding and importing the script                          *)
(***************************************************************************)
\* the ancestor of dir that is n levels below the root
Ancestor(dir, n) == SubSeq(dir, 1, n)

\* the depths of the ancestors of dir, dir included, without an __init__.py
Unmarked(dir) == {n \in 0..Len(dir) : Ancestor(dir, n) \notin markers}

\* the depth of the nearest of them
NearestUnmarked(dir) ==
    CHOOSE n \in Unmarked(dir) : \A m \in Unmarked(dir) : m <= n

\* the names of the directories below that one, outermost first: the k
\* nearest ancestors of a script in dir, each with an __init__.py
Packages(dir) == SubSeq(dir, NearestUnmarked(dir) + 1, Len(dir))

\* a file name without its .py extension
ScriptName(file) ==
    IF Len(file) > 3 /\ SubSeq(file, Len(file) - 2, Len(file)) = <<".", "p", "y">>
    THEN SubSeq(file, 1, Len(file) - 3)
    ELSE file

\* names written with a dot between each two
RECURSIVE Dotted(_)
Dotted(names) ==
    IF Len(names) = 1 THEN names[1]
    ELSE Dotted(Front(names)) \o <<DOT>> \o Last(names)

\* C8: after any sequence of prepare_import calls in one process, no
\* directory occurs twice in sys.path.
C8_SearchRootOccursOnce ==
    \A i, j \in 1..Len(sys_path) : i # j => sys_path[i] # sys_path[j]

\* C9: discovery started in a directory loads the script of the nearest
\* directory, going upward from the start, that holds one, and fails only
\* when no directory up to the root holds one.
C9_DiscoveryWalksUpward ==
    (icall.op = "load_cli" /\ ~icall.hang)
    => LET holding == {n \in 0..Len(icall.dir) :
                          Ancestor(icall.dir, n) \in scripts} IN
       IF holding = {}
       THEN icall.err # NoErr /\ icall.loaded = <<>>
       ELSE icall.loaded =
                <<Ancestor(icall.dir,
                           CHOOSE n \in holding : \A m \in holding : m <= n)>>

NextGroup ==
    \/ AddCommand
    \/ SetDefaultCommand
    \/ CommandDecorator
    \/ NewContext
    \/ ParseArgs
    \/ GetCommand
    \/ ResolveCommand
    \/ Main

InitGroup == GroupStart /\ ExecStart /\ ImportIdle

SpecGroup == InitGroup /\ [][NextGroup]_vars

GroupIdle ==
    /\ commands = <<>>
    /\ default_cmd_name = None
    /\ default_if_no_args = FALSE
    /\ arg0 = NoArg0
    /\ resilient_parsing = FALSE
    /\ call = Blank

NextExec ==
    \/ Tome
    \/ Run
    \/ RunEntrypoint
    \/ NewInvocation

InitExec == GroupIdle /\ ExecStart /\ ImportIdle

SpecExec == InitExec /\ [][NextExec]_vars

NextImport ==
    \/ PrepareImport
    \/ NewProcess

InitImport ==
    /\ GroupIdle
    /\ ExecStart
    /\ ImportStart
    /\ scripts = {}
    /\ factories = {}

SpecImport == InitImport /\ [][NextImport]_vars

NextLoad ==
    \/ LoadCli
    \/ NewProcess

InitLoad ==
    /\ GroupIdle
    /\ ExecStart
    /\ ImportStart
    /\ scripts \in {held \in SUBSET Dirs : Cardinality(held) <= MaxScripts}
    /\ factories \in SUBSET scripts

SpecLoad == InitLoad /\ [][NextLoad]_vars

====
